---- MODULE Spec2Model ----
\* Model of the Cache class of jira-cli.py (src/jira-cli.py:141-193): a JSON
\* file whose modification time is the version of the cached data.
\*
\* An object of class Cache lives in one process; several objects (in the same
\* or in different processes) may be bound to the same file.  Every method is
\* cut at its file system calls (stat, open, read, write), because these are
\* the points where another process can act on the file.  Time is counted in
\* hours; a write stamps the file with the current hour.
EXTENDS Integers, Sequences, FiniteSets, TLC

\* ------------------------------------------------------------------ bounds
StartTime == 10        \* the hour at which the model starts
MaxTime == 11          \* the clock stops ticking here
MaxLen == 1            \* longest sequence handed to set
MaxIssues == 2         \* most issues one update command works on
Objs == {"A", "B"}     \* the Cache objects bound to the one file
Elems == {1}           \* what the sequences hold

\* ------------------------------------------------------- program constants
DefaultDuration == 9   \* obsolete(duration=datetime.timedelta(hours=9))
Epoch == 0             \* datetime.datetime.fromtimestamp(0)
NoVersion == -1        \* self._version = None

\* --------------------------------------------------------- Python values
PyNone == [kind |-> "none", items |-> <<>>]
PyList(s) == [kind |-> "list", items |-> s]
PyTuple(s) == [kind |-> "tuple", items |-> s]
NoValue == [kind |-> "nothing", items |-> <<>>]   \* no Python value at all

SeqsUpTo(n) == UNION {[1..k -> Elems] : k \in 0..n}
ListValues == {PyList(s) : s \in SeqsUpTo(MaxLen)}
TupleValues == {PyTuple(s) : s \in [1..MaxLen -> Elems]}
\* the data a caller hands to set: sequences, as lists or as tuples
SetValues == ListValues \cup TupleValues

IsSequence(v) == v.kind \in {"list", "tuple"}

\* ------------------------------------------------------------------- JSON
RECURSIVE JoinItems(_)
JoinItems(s) ==
    IF s = <<>> THEN ""
    ELSE IF Len(s) = 1 THEN ToString(Head(s))
    ELSE ToString(Head(s)) \o ", " \o JoinItems(Tail(s))

\* a dump that writes str(data) instead of JSON: a tuple becomes "(1,)"
DumpsStr(v) ==
    IF v.kind = "none" THEN "None"
    ELSE IF v.kind = "tuple" THEN "(" \o JoinItems(v.items) \o ",)"
    ELSE "[" \o JoinItems(v.items) \o "]"

\* json.dump: lists and tuples are both written as a JSON array, None as null
Dumps(v) ==
    IF v.kind = "none" THEN "null" ELSE "[" \o JoinItems(v.items) \o "]"

EmptyText == ""        \* a file of zero bytes
BadText == "{bad"      \* a file that is not JSON

\* json.load: a JSON array is read as a list, null as None; any other text of
\* the model raises json.JSONDecodeError
JsonDocs == {PyNone} \cup {PyList(s) : s \in SeqsUpTo(MaxLen + 1)}
Loads(t) ==
    IF \E v \in JsonDocs : Dumps(v) = t
    THEN [ok |-> TRUE, val |-> CHOOSE v \in JsonDocs : Dumps(v) = t]
    ELSE [ok |-> FALSE, val |-> NoValue]

\* what another program may leave in the file
ExternalContents == {EmptyText, BadText} \cup {Dumps(v) : v \in ListValues}

\* ------------------------------------------------------------------ state
VARIABLES
    now,         \* datetime.datetime.now(), in hours
    file,        \* the cache file: whether it exists, its text, its mtime
    version,     \* self._version of each object (NoVersion: None)
    data,        \* self._data of each object
    pc,          \* where each object is inside a method
    call,        \* the method call an object is inside of
    ev,          \* what the step just taken returned or raised to the caller
    loadedFrom,  \* what _load found when it ran on each object
    lastSet,     \* the data of the last set of each object that returned
    doer         \* the Doer of the process that owns object A: its arguments,
                 \* where it is in its command, the Jira calls it has made

vars == <<now, file, version, data, pc, call, ev, loadedFrom, lastSet, doer>>

ReadOps == {"get", "version", "empty", "obsolete"}
Durations == {1, DefaultDuration}

\* pyval: the Python value whose dump the text is, when set wrote the text
NoFile == [exists |-> FALSE, content |-> EmptyText, mtime |-> Epoch, pyval |-> NoValue]
WrittenFile(c, t, v) == [exists |-> TRUE, content |-> c, mtime |-> t, pyval |-> v]

\* arg: the data of a set call; found: set's stat found the file;
\* dirty: the file was written since _load's stat
NoCall == [arg |-> NoValue, found |-> FALSE, dirty |-> FALSE]

NoEvent == [obj |-> "none", op |-> "none", status |-> "none", val |-> NoValue,
            ver |-> NoVersion, flag |-> FALSE, d |-> 0, old |-> NoVersion,
            found |-> FALSE, dirty |-> FALSE]

\* ----------------------------------------------------- the pure methods
\* a method that loads on every call
NeedsLoadAlways(v) == TRUE

\* Cache.version, Cache.get: if self._version is None: self._load()
NeedsLoad(v) == v = NoVersion

\* an empty that tests for None only
EmptyNoneOnly(dta) == dta = PyNone

\* Cache.empty: self.get() is None or len(self.get()) == 0
Empty(dta) == dta = PyNone \/ Len(dta.items) = 0

\* an obsolete that counts the age of exactly the duration as too old
ObsoleteNonStrict(v, n, d) == v <= n - d

\* Cache.obsolete: self.version() < datetime.datetime.now() - duration
Obsolete(v, n, d) == v < n - d

\* the test of set with its comparison the wrong way round
ModifiedReversed(last_modified, v) == last_modified < v

\* Cache.set, the test that refuses the write: last_modified > self._version
Modified(last_modified, v) == last_modified > v

\* what a read method hands back from self._version and self._data
Returned(o, op, d) ==
    [NoEvent EXCEPT
        !.obj = o, !.op = op, !.status = "ok", !.d = d,
        !.val = IF op = "get" THEN data[o] ELSE NoValue,
        !.ver = IF op = "version" THEN version[o] ELSE NoVersion,
        !.flag = IF op = "empty" THEN Empty(data[o])
                 ELSE IF op = "obsolete" THEN Obsolete(version[o], now, d)
                 ELSE FALSE]

\* every write of the file is seen by the loads that are between stat and read
Dirtied(o) ==
    [p \in Objs |-> IF p # o /\ pc[p] = "load_read"
                    THEN [call[p] EXCEPT !.dirty = TRUE] ELSE call[p]]

\* ------------------------------------------------------------------- Init
\* Cache.__init__ on every object; the file is absent or was left by an
\* earlier run, nine hours ago or just now
InitWith(contents) ==
    /\ now = StartTime
    /\ file \in {NoFile} \cup
         {WrittenFile(c, t, NoValue) :
             c \in contents, t \in {StartTime - DefaultDuration, StartTime}}
    /\ version = [o \in Objs |-> NoVersion]
    /\ data = [o \in Objs |-> PyList(<<>>)]
    /\ pc = [o \in Objs |-> "idle"]
    /\ call = [o \in Objs |-> NoCall]
    /\ ev = NoEvent
    /\ loadedFrom = [o \in Objs |-> "never"]
    /\ lastSet = [o \in Objs |-> NoValue]

\* a Doer: cmd is the subcommand, the next five are what the arguments give,
\* left the issues still to do, calls the methods of the Jira client called
\* so far; epic stands for all the custom fields but the sprint; branch,
\* sprints, result and refreshedAt are of _list_sprints: the
\* branch the last call took, what it enumerated, what it returned, and when
\* a call last wrote the cache
NoDoer == [cmd |-> "none", dry_run |-> FALSE, assignee |-> FALSE, status |-> FALSE,
           comment |-> FALSE, sprint |-> FALSE, epic |-> FALSE,
           pc |-> "none", left |-> 0,
           calls |-> {}, branch |-> "none", sprints |-> NoValue,
           result |-> NoValue, refreshedAt |-> NoVersion]

\* the cache objects used on their own: no Doer runs
Init == InitWith(ExternalContents) /\ doer = NoDoer

\* -------------------------------------------------------------- reading
\* get, version, empty, obsolete once self._version is set: no file access.
\* (On an unloaded object the method first runs _load, below, and then
\* returns as here.)
Read(o, op, d) ==
    /\ pc[o] = "idle"
    /\ ~NeedsLoad(version[o])
    /\ ev' = Returned(o, op, d)
    /\ UNCHANGED <<now, file, version, data, pc, call, loadedFrom, lastSet>>

\* a _load that stamps a missing file with the current time
LoadAbsentNow(o) ==
    /\ pc[o] = "idle"
    /\ NeedsLoad(version[o])
    /\ ~file.exists
    /\ version' = [version EXCEPT ![o] = now]
    /\ data' = [data EXCEPT ![o] = PyNone]
    /\ loadedFrom' = [loadedFrom EXCEPT ![o] = "absent"]
    /\ ev' = [NoEvent EXCEPT !.obj = o, !.op = "_load", !.status = "ok",
                             !.val = PyNone, !.ver = now]
    /\ UNCHANGED <<now, file, pc, call, lastSet>>

\* _load up to os.path.getmtime, the file is absent: FileNotFoundError is
\* caught, _load is over
LoadAbsent(o) ==
    /\ pc[o] = "idle"
    /\ NeedsLoad(version[o])
    /\ ~file.exists
    /\ version' = [version EXCEPT ![o] = Epoch]
    /\ data' = [data EXCEPT ![o] = PyNone]
    /\ loadedFrom' = [loadedFrom EXCEPT ![o] = "absent"]
    /\ ev' = [NoEvent EXCEPT !.obj = o, !.op = "_load", !.status = "ok",
                             !.val = PyNone, !.ver = Epoch]
    /\ UNCHANGED <<now, file, pc, call, lastSet>>

\* a _load that takes the version from the clock, not from the file
LoadStatClock(o) ==
    /\ pc[o] = "idle"
    /\ NeedsLoad(version[o])
    /\ file.exists
    /\ version' = [version EXCEPT ![o] = now]
    /\ pc' = [pc EXCEPT ![o] = "load_read"]
    /\ ev' = NoEvent
    /\ UNCHANGED <<now, file, data, call, loadedFrom, lastSet>>

\* _load up to os.path.getmtime, the file is there:
\* self._version = self._get_version()
LoadStat(o) ==
    /\ pc[o] = "idle"
    /\ NeedsLoad(version[o])
    /\ file.exists
    /\ version' = [version EXCEPT ![o] = file.mtime]
    /\ pc' = [pc EXCEPT ![o] = "load_read"]
    /\ ev' = NoEvent
    /\ UNCHANGED <<now, file, data, call, loadedFrom, lastSet>>

\* _load, open and json.load: the text is JSON, _load is over
LoadRead(o) ==
    /\ pc[o] = "load_read"
    /\ Loads(file.content).ok
    /\ data' = [data EXCEPT ![o] = Loads(file.content).val]
    /\ loadedFrom' = [loadedFrom EXCEPT ![o] = "json"]
    /\ pc' = [pc EXCEPT ![o] = "idle"]
    /\ call' = [call EXCEPT ![o] = NoCall]
    /\ ev' = [NoEvent EXCEPT !.obj = o, !.op = "_load", !.status = "ok",
                             !.val = Loads(file.content).val, !.ver = version[o],
                             !.dirty = call[o].dirty]
    /\ UNCHANGED <<now, file, version, lastSet>>

\* _load, open and json.load: the text is not JSON, json.JSONDecodeError
\* leaves _load and the method that called it; self._version stays as
\* LoadStat set it, self._data as it was
LoadFails(o) ==
    /\ pc[o] = "load_read"
    /\ ~Loads(file.content).ok
    /\ loadedFrom' = [loadedFrom EXCEPT ![o] = "notjson"]
    /\ pc' = [pc EXCEPT ![o] = "idle"]
    /\ call' = [call EXCEPT ![o] = NoCall]
    /\ ev' = [NoEvent EXCEPT !.obj = o, !.op = "_load", !.status = "JSONDecodeError",
                             !.dirty = call[o].dirty]
    /\ UNCHANGED <<now, file, version, data, lastSet>>

\* ------------------------------------------------------------------ set
\* set up to the test, the file is absent: FileNotFoundError, pass
SetAbsent(o, v) ==
    /\ pc[o] = "idle"
    /\ ~file.exists
    /\ pc' = [pc EXCEPT ![o] = "set_open"]
    /\ call' = [call EXCEPT ![o] = [NoCall EXCEPT !.arg = v]]
    /\ ev' = NoEvent
    /\ UNCHANGED <<now, file, version, data, loadedFrom, lastSet>>

\* set up to the test, self._version is None: comparing a datetime with None
\* raises TypeError
SetUnloaded(o, v) ==
    /\ pc[o] = "idle"
    /\ file.exists
    /\ version[o] = NoVersion
    /\ ev' = [NoEvent EXCEPT !.obj = o, !.op = "set", !.status = "TypeError",
                             !.val = v, !.old = version[o], !.found = TRUE]
    /\ UNCHANGED <<now, file, version, data, pc, call, loadedFrom, lastSet>>

\* a refused set that takes over the version of the file it found
SetRefusedReloads(o, v) ==
    /\ pc[o] = "idle"
    /\ file.exists
    /\ version[o] # NoVersion
    /\ Modified(file.mtime, version[o])
    /\ version' = [version EXCEPT ![o] = file.mtime]
    /\ ev' = [NoEvent EXCEPT !.obj = o, !.op = "set", !.status = "ConflictingWrite",
                             !.val = v, !.old = version[o], !.found = TRUE]
    /\ UNCHANGED <<now, file, data, pc, call, loadedFrom, lastSet>>

\* set up to the test, the file is newer than self._version: raise Exception
SetRefused(o, v) ==
    /\ pc[o] = "idle"
    /\ file.exists
    /\ version[o] # NoVersion
    /\ Modified(file.mtime, version[o])
    /\ ev' = [NoEvent EXCEPT !.obj = o, !.op = "set", !.status = "ConflictingWrite",
                             !.val = v, !.old = version[o], !.found = TRUE]
    /\ UNCHANGED <<now, file, version, data, pc, call, loadedFrom, lastSet>>

\* set up to the test, the file is not newer: go on to write
SetChecked(o, v) ==
    /\ pc[o] = "idle"
    /\ file.exists
    /\ version[o] # NoVersion
    /\ ~Modified(file.mtime, version[o])
    /\ pc' = [pc EXCEPT ![o] = "set_open"]
    /\ call' = [call EXCEPT ![o] = [NoCall EXCEPT !.arg = v, !.found = TRUE]]
    /\ ev' = NoEvent
    /\ UNCHANGED <<now, file, version, data, loadedFrom, lastSet>>

\* open(self._filename, "w"): the file is created or cut to zero bytes
SetOpen(o) ==
    /\ pc[o] = "set_open"
    /\ file' = WrittenFile(EmptyText, now, NoValue)
    /\ pc' = [pc EXCEPT ![o] = "set_dump"]
    /\ call' = Dirtied(o)
    /\ ev' = NoEvent
    /\ UNCHANGED <<now, version, data, loadedFrom, lastSet>>

\* json.dump(data, fd) and the end of the with block: the text reaches the file
SetDump(o) ==
    /\ pc[o] = "set_dump"
    /\ file' = WrittenFile(Dumps(call[o].arg), now, call[o].arg)
    /\ pc' = [pc EXCEPT ![o] = "set_stat"]
    /\ call' = Dirtied(o)
    /\ ev' = NoEvent
    /\ UNCHANGED <<now, version, data, loadedFrom, lastSet>>

\* a set that does not refresh self._version after the write
SetStatStale(o) ==
    /\ pc[o] = "set_stat"
    /\ data' = [data EXCEPT ![o] = call[o].arg]
    /\ pc' = [pc EXCEPT ![o] = "idle"]
    /\ call' = [call EXCEPT ![o] = NoCall]
    /\ ev' = [NoEvent EXCEPT !.obj = o, !.op = "set", !.status = "ok",
                             !.val = call[o].arg, !.ver = version[o],
                             !.old = version[o], !.found = call[o].found]
    /\ lastSet' = [lastSet EXCEPT ![o] = call[o].arg]
    /\ UNCHANGED <<now, file, version, loadedFrom>>

\* a set that does not keep the data in self._data
SetStatKeepsData(o) ==
    /\ pc[o] = "set_stat"
    /\ version' = [version EXCEPT ![o] = file.mtime]
    /\ pc' = [pc EXCEPT ![o] = "idle"]
    /\ call' = [call EXCEPT ![o] = NoCall]
    /\ ev' = [NoEvent EXCEPT !.obj = o, !.op = "set", !.status = "ok",
                             !.val = call[o].arg, !.ver = file.mtime,
                             !.old = version[o], !.found = call[o].found]
    /\ lastSet' = [lastSet EXCEPT ![o] = call[o].arg]
    /\ UNCHANGED <<now, file, data, loadedFrom>>

\* self._version = self._get_version(); self._data = data
SetStat(o) ==
    /\ pc[o] = "set_stat"
    /\ version' = [version EXCEPT ![o] = file.mtime]
    /\ data' = [data EXCEPT ![o] = call[o].arg]
    /\ pc' = [pc EXCEPT ![o] = "idle"]
    /\ call' = [call EXCEPT ![o] = NoCall]
    /\ ev' = [NoEvent EXCEPT !.obj = o, !.op = "set", !.status = "ok",
                             !.val = call[o].arg, !.ver = file.mtime,
                             !.old = version[o], !.found = call[o].found]
    /\ lastSet' = [lastSet EXCEPT ![o] = call[o].arg]
    /\ UNCHANGED <<now, file, loadedFrom>>

\* ------------------------------------------------------- the environment
\* another program replaces the file
ExternalWrite(c) ==
    /\ file' = WrittenFile(c, now, NoValue)
    /\ call' = Dirtied("none")
    /\ ev' = NoEvent
    /\ UNCHANGED <<now, version, data, pc, loadedFrom, lastSet>>

\* an hour passes
Tick ==
    /\ now < MaxTime
    /\ now' = now + 1
    /\ ev' = NoEvent
    /\ UNCHANGED <<file, version, data, pc, call, loadedFrom, lastSet>>

\* the read methods an object is called with; only obsolete takes a duration
Reads(o, ops) ==
    \E op \in ops, d \in Durations :
        (op = "obsolete" \/ d = DefaultDuration) /\ Read(o, op, d)

\* what one object can do
Method(o, ops) ==
    \/ Reads(o, ops) /\ UNCHANGED doer
    \/ LoadAbsent(o) /\ UNCHANGED doer
    \/ LoadStat(o) /\ UNCHANGED doer
    \/ LoadRead(o) /\ UNCHANGED doer
    \/ LoadFails(o) /\ UNCHANGED doer
    \/ \E v \in SetValues : SetAbsent(o, v) /\ UNCHANGED doer
    \/ \E v \in SetValues : SetUnloaded(o, v) /\ UNCHANGED doer
    \/ \E v \in SetValues : SetRefused(o, v) /\ UNCHANGED doer
    \/ \E v \in SetValues : SetChecked(o, v) /\ UNCHANGED doer
    \/ SetOpen(o) /\ UNCHANGED doer
    \/ SetDump(o) /\ UNCHANGED doer
    \/ SetStat(o) /\ UNCHANGED doer

\* what happens around the tool
Environment ==
    \/ \E c \in ExternalContents : ExternalWrite(c) /\ UNCHANGED doer
    \/ Tick /\ UNCHANGED doer

\* one run of the tool, its object A, and other programs writing the file
Next ==
    \/ Method("A", ReadOps)
    \/ Environment

Spec == Init /\ [][Next]_vars

\* two runs of the tool at once, each with its own object that it reads with
\* get and writes with set, and nothing else writing the file
NextTwo ==
    \/ \E o \in Objs : Method(o, {"get"})
    \/ Tick /\ UNCHANGED doer

\* the file, when it is there, is what an earlier run of the tool wrote
InitTwo == InitWith({Dumps(v) : v \in ListValues}) /\ doer = NoDoer

SpecTwo == InitTwo /\ [][NextTwo]_vars

\* ---------------------------------------------------------------- the Doer
\* the methods of the Jira client that change something in Jira, and the
\* ones that only read
MutatingCalls ==
    {"create_issue", "assign_issue", "transition_issue", "add_comment", "issue.update"}
ReadCalls ==
    {"search_issues", "issue", "search_users", "transitions", "boards", "sprints"}

\* the command lines: create takes no comment, update no assignee
DoerArgs ==
    {[NoDoer EXCEPT !.cmd = c, !.pc = c, !.dry_run = dr, !.status = st,
                    !.sprint = sp, !.epic = ep,
                    !.assignee = (c = "create" /\ x), !.comment = (c = "update" /\ x)] :
        c \in {"create", "update"}, dr \in BOOLEAN, st \in BOOLEAN,
        sp \in BOOLEAN, ep \in BOOLEAN, x \in BOOLEAN}

\* a step of the Doer that leaves the cache object alone
NoCacheStep ==
    /\ ev' = NoEvent
    /\ UNCHANGED <<now, file, version, data, pc, call, loadedFrom, lastSet>>

\* the Doer makes the calls cs and goes on at p
Goes(p, cs) == doer' = [doer EXCEPT !.pc = p, !.calls = doer.calls \cup cs]

\* do_create: the issue is created, or shown under --dry-run
DoCreate ==
    /\ doer.pc = "create"
    /\ doer' = [doer EXCEPT !.pc = "assign", !.left = 1,
                  !.calls = doer.calls \cup
                            (IF doer.dry_run THEN {} ELSE {"create_issue"})]
    /\ NoCacheStep

\* do_create, the assignee: the user is searched for, there has to be exactly
\* one, and the issue is assigned unless --dry-run
DoAssign ==
    /\ doer.pc = "assign"
    /\ \/ ~doer.assignee /\ Goes("status", {})
       \/ /\ doer.assignee
          /\ \E one \in BOOLEAN :
                IF ~one THEN Goes("crashed", {"search_users"})
                ELSE IF doer.dry_run THEN Goes("status", {"search_users"})
                ELSE Goes("status", {"search_users", "assign_issue"})
    /\ NoCacheStep

\* do_update: the issues are looked up one by one or searched for
DoLookup ==
    /\ doer.pc = "update"
    /\ \E c \in {"issue", "search_issues"}, n \in 0 .. MaxIssues :
          /\ c = "issue" => n > 0
          /\ doer' = [doer EXCEPT !.pc = IF n = 0 THEN "done" ELSE "status",
                                  !.left = n, !.calls = doer.calls \cup {c}]
    /\ NoCacheStep

\* an _update_status that does not look at --dry-run
UpdateStatusAlways ==
    /\ doer.pc = "status"
    /\ LET after == IF doer.cmd = "update" THEN "comment" ELSE "custom"
       IN  \/ ~doer.status /\ Goes(after, {})
           \/ /\ doer.status
              /\ \E there \in BOOLEAN :
                    IF there THEN Goes(after, {"transitions", "transition_issue"})
                    ELSE Goes("crashed", {"transitions"})
    /\ NoCacheStep

\* _update_status: nothing without --status, a message under --dry-run, else
\* the transitions are read, the status has to be among them, and the issue
\* is moved
UpdateStatus ==
    /\ doer.pc = "status"
    /\ LET after == IF doer.cmd = "update" THEN "comment" ELSE "custom"
       IN  \/ (~doer.status \/ doer.dry_run) /\ Goes(after, {})
           \/ /\ doer.status /\ ~doer.dry_run
              /\ \E there \in BOOLEAN :
                    IF there THEN Goes(after, {"transitions", "transition_issue"})
                    ELSE Goes("crashed", {"transitions"})
    /\ NoCacheStep

\* do_update, the comment of one issue
DoComment ==
    /\ doer.pc = "comment"
    /\ IF doer.comment /\ ~doer.dry_run
       THEN Goes("custom", {"add_comment"}) ELSE Goes("custom", {})
    /\ NoCacheStep

\* an _update_custom whose sprint listing starts at the enumeration
UpdateCustomEnumerates ==
    /\ doer.pc = "custom"
    /\ doer' = [doer EXCEPT !.pc = IF doer.sprint THEN "ls_enumerate" ELSE "fields",
                            !.branch = "none", !.sprints = NoValue,
                            !.result = NoValue]
    /\ NoCacheStep

\* _update_custom up to the sprint: with --sprint it calls _list_sprints
UpdateCustom ==
    /\ doer.pc = "custom"
    /\ doer' = [doer EXCEPT !.pc = IF doer.sprint THEN "ls_obsolete" ELSE "fields",
                            !.branch = "none", !.sprints = NoValue,
                            !.result = NoValue]
    /\ NoCacheStep

\* _list_sprints, obsolete() on the object not yet loaded: version() loads
LsLoad ==
    /\ doer.pc = "ls_obsolete"
    /\ LoadAbsent("A") \/ LoadStat("A")
    /\ UNCHANGED doer

LsLoadRead ==
    /\ doer.pc = "ls_obsolete"
    /\ LoadRead("A")
    /\ UNCHANGED doer

\* the JSONDecodeError of the load leaves obsolete, _list_sprints and,
\* caught nowhere, the process
LsLoadFails ==
    /\ doer.pc = "ls_obsolete"
    /\ LoadFails("A")
    /\ Goes("crashed", {})

\* a _list_sprints that refreshes the cache whatever obsolete() says
LsObsoleteIgnored ==
    /\ doer.pc = "ls_obsolete"
    /\ Read("A", "obsolete", DefaultDuration)
    /\ doer' = [doer EXCEPT !.pc = "ls_enumerate", !.branch = "refresh"]

\* _list_sprints: if not self._cache_sprints.obsolete()
LsObsolete ==
    /\ doer.pc = "ls_obsolete"
    /\ Read("A", "obsolete", DefaultDuration)
    /\ doer' = [doer EXCEPT !.pc = IF ev'.flag THEN "ls_enumerate" ELSE "ls_get",
                            !.branch = IF ev'.flag THEN "refresh" ELSE "cached"]

\* _list_sprints: return self._cache_sprints.get()
LsGet ==
    /\ doer.pc = "ls_get"
    /\ Read("A", "get", DefaultDuration)
    /\ doer' = [doer EXCEPT !.pc = "filter", !.result = ev'.val]

\* _list_sprints: the boards and their sprints are read from Jira
LsEnumerate ==
    /\ doer.pc = "ls_enumerate"
    /\ \E v \in ListValues :
          doer' = [doer EXCEPT !.pc = "ls_set", !.sprints = v,
                               !.calls = doer.calls \cup {"boards", "sprints"}]
    /\ NoCacheStep

\* _list_sprints: self._cache_sprints.set(sprints), up to the test of set;
\* what set raises is caught nowhere
LsSet ==
    /\ doer.pc = "ls_set"
    /\ \/ SetAbsent("A", doer.sprints)
       \/ SetUnloaded("A", doer.sprints)
       \/ SetRefused("A", doer.sprints)
       \/ SetChecked("A", doer.sprints)
    /\ Goes(IF ev'.status \in {"TypeError", "ConflictingWrite"}
            THEN "crashed" ELSE "ls_write", {})

\* set writes the file
LsWrite ==
    /\ doer.pc = "ls_write"
    /\ SetOpen("A") \/ SetDump("A")
    /\ UNCHANGED doer

\* set returns, and _list_sprints: return sprints
LsReturn ==
    /\ doer.pc = "ls_write"
    /\ SetStat("A")
    /\ doer' = [doer EXCEPT !.pc = "filter", !.result = doer.sprints,
                            !.refreshedAt = now]

\* _update_custom: the sprints of the name asked for, assert len(sprints) == 1
Filter ==
    /\ doer.pc = "filter"
    /\ IF doer.result # PyNone /\ Len(doer.result.items) = 1
       THEN Goes("fields", {}) ELSE Goes("crashed", {})
    /\ NoCacheStep

\* _update_custom: if custom != {}, the issue is updated, or the fields are
\* shown under --dry-run; then the next issue of do_update
DoFields ==
    /\ doer.pc = "fields"
    /\ doer' = [doer EXCEPT
                  !.pc = IF doer.left > 1 THEN "status" ELSE "done",
                  !.left = doer.left - 1,
                  !.calls = doer.calls \cup
                            (IF (doer.sprint \/ doer.epic) /\ ~doer.dry_run
                             THEN {"issue.update"} ELSE {})]
    /\ NoCacheStep

\* one run of the tool from its command line to its end, and other programs
\* writing the cache file
InitCli == InitWith(ExternalContents) /\ doer \in DoerArgs

NextCli ==
    \/ DoCreate
    \/ DoAssign
    \/ DoLookup
    \/ UpdateStatus
    \/ DoComment
    \/ UpdateCustom
    \/ LsLoad
    \/ LsLoadRead
    \/ LsLoadFails
    \/ LsObsolete
    \/ LsGet
    \/ LsEnumerate
    \/ LsSet
    \/ LsWrite
    \/ LsReturn
    \/ Filter
    \/ DoFields
    \/ Environment

SpecCli == InitCli /\ [][NextCli]_vars

\* ================================================================ claims
Other(o) == CHOOSE p \in Objs : p # o
Loaded(o) == version[o] # NoVersion
InSet(o) == pc[o] \in {"set_open", "set_dump", "set_stat"}

\* C1: when the file is newer than the version a loaded object holds, a set
\* on that object does not get to write: the call raises the
\* modified-after-load error, and the file is after the call what it was
\* before it.
C1_NewerFileRefusesSet ==
    [][\A o \in Objs :
          (pc[o] = "idle" /\ Loaded(o) /\ file.exists /\ file.mtime > version[o])
          => /\ ~InSet(o)'
             /\ (ev'.op = "set" /\ ev'.obj = o)
                => (ev'.status = "ConflictingWrite" /\ file' = file
                    /\ version'[o] = version[o])]_vars

\* C1, its case: an object that loaded the file has just been refused a set,
\* the file carries the text another program wrote later, not the data of
\* the refused set.
C1_Witness ==
    /\ ev.op = "set" /\ ev.status = "ConflictingWrite"
    /\ loadedFrom[ev.obj] = "json"
    /\ file.pyval = NoValue /\ file.mtime > version[ev.obj]
    /\ Loads(file.content).ok /\ file.content # Dumps(ev.val)

\* C2: a set on an object that never loaded, made when another object has
\* loaded and set (the file holds that object's data), returns without
\* error, leaves its data in the file and refreshes the object's version and
\* data.
C2_UnloadedSetSucceeds ==
    (/\ ev.op = "set" /\ ev.old = NoVersion /\ ev.found
     /\ pc[Other(ev.obj)] = "idle"
     /\ loadedFrom[Other(ev.obj)] # "never"
     /\ lastSet[Other(ev.obj)] # NoValue)
    => /\ ev.status = "ok"
       /\ file.pyval = ev.val
       /\ version[ev.obj] = file.mtime
       /\ data[ev.obj] = ev.val

\* C3 as claimed: after a set(V) that returned, get on the same object
\* returns V, and an object that loads the file set wrote gets V.
C3_RoundTripEveryValue ==
    /\ (ev.op = "get" /\ lastSet[ev.obj] # NoValue) => ev.val = lastSet[ev.obj]
    /\ (ev.op = "_load" /\ file.exists /\ file.pyval # NoValue)
       => (ev.status = "ok" /\ ev.val = file.pyval)

\* what reading the JSON text of a value gives: a tuple comes back as a list
AsJson(v) == IF v.kind = "tuple" THEN PyList(v.items) ELSE v

\* C3 as amended: after a set(V) that returned, get on the same object
\* returns V; an object that loads the file set wrote gets V as JSON reads
\* it, which is V when V is a list and the list of V's items when V is a
\* tuple.
C3_RoundTripJson ==
    /\ (ev.op = "get" /\ lastSet[ev.obj] # NoValue) => ev.val = lastSet[ev.obj]
    /\ (ev.op = "_load" /\ file.exists /\ file.pyval # NoValue)
       => /\ ev.status = "ok"
          /\ ev.val = AsJson(file.pyval)
          /\ (file.pyval.kind = "list" => ev.val = file.pyval)

\* C3, its case: an object that never set has just loaded the non-empty list
\* another object set.
C3_Witness ==
    /\ ev.op = "_load" /\ ev.status = "ok"
    /\ lastSet[ev.obj] = NoValue
    /\ file.pyval = lastSet[Other(ev.obj)]
    /\ file.pyval.kind = "list" /\ Len(file.pyval.items) > 0
    /\ ev.val = file.pyval

\* C4: a get or version call on an object whose file is there and is not
\* JSON raises the load error, on the first access (the call that runs
\* _load) and on every later one.
C4_NotJsonAlwaysRaises ==
    (/\ ev.op \in {"_load", "get", "version"}
     /\ loadedFrom[ev.obj] = "notjson"
     /\ file.exists /\ ~Loads(file.content).ok)
    => ev.status = "JSONDecodeError"

\* C5: get returns None only on an object that found no file when it
\* loaded; on an object that found a file, one of zero bytes included, the
\* get that loads returns a sequence.
C5_NoneOnlyWithoutFile ==
    /\ (ev.op \in {"_load", "get"} /\ ev.status = "ok" /\ ev.val = PyNone)
       => loadedFrom[ev.obj] = "absent"
    /\ (ev.op = "_load" /\ file.exists
        /\ (file.content = EmptyText \/ Loads(file.content).ok))
       => (ev.status = "ok" /\ IsSequence(ev.val))

\* C6 as claimed: after a load the version and the data of the object are
\* the modification time and the content of the file as it was read.
C6_LoadReadsOneState ==
    (ev.op = "_load" /\ ev.status = "ok" /\ file.exists)
    => /\ version[ev.obj] = file.mtime
       /\ data[ev.obj] = Loads(file.content).val

\* C6 as amended: a load takes the modification time first and the content
\* in a later step. The data is the content of the file as it was read; the
\* version is the modification time of that state of the file or of an
\* earlier one, never of a later one, and it is the modification time of
\* that very state when nothing wrote the file between the two steps.
C6_LoadVersionNotNewer ==
    (ev.op = "_load" /\ ev.status = "ok" /\ file.exists)
    => /\ data[ev.obj] = Loads(file.content).val
       /\ version[ev.obj] <= file.mtime
       /\ (~ev.dirty => version[ev.obj] = file.mtime)

\* C6, its case: a load has just returned the content of a file that was
\* written after the load took the modification time.
C6_Witness ==
    /\ ev.op = "_load" /\ ev.status = "ok" /\ ev.dirty
    /\ version[ev.obj] < file.mtime
    /\ data[ev.obj] = Loads(file.content).val

\* C7: the test of set and its write are separate steps. A set that has
\* passed the test and written returns without error and keeps its own data
\* and the file's modification time in memory, without looking at what the
\* file holds by then; so of two sets that passed the test on the same
\* version both return, and the file holds the data of one of them only.
C7_CheckedSetReturns ==
    [][\A o \in Objs :
          (pc[o] = "set_stat" /\ pc'[o] # "set_stat")
          => /\ ev'.obj = o /\ ev'.op = "set" /\ ev'.status = "ok"
             /\ data'[o] = call[o].arg
             /\ version'[o] = file.mtime
             /\ file' = file]_vars

\* C7, its case: both objects loaded the same version, both passed the test
\* before either wrote (the file is newer than what they hold, so a test
\* made after a write would have refused), both have written, and the file
\* holds the data of one set: the data of the other is lost.
C7_Witness ==
    \E o \in Objs :
        /\ pc[o] = "set_stat" /\ pc[Other(o)] = "set_stat"
        /\ loadedFrom[o] = "json" /\ loadedFrom[Other(o)] = "json"
        /\ version[o] = version[Other(o)] /\ Loaded(o)
        /\ file.mtime > version[o]
        /\ file.pyval = call[o].arg
        /\ file.content # Dumps(call[Other(o)].arg)

\* C8: an object that has a version never goes back to having none, never
\* starts a load again, and its version and data change only in the load
\* that the first call started and at the return of a set; a get, version,
\* empty or obsolete call on it changes nothing and reads no file.
C8_LoadsAtMostOnce ==
    [][\A o \in Objs :
          Loaded(o)
          => /\ Loaded(o)'
             /\ (pc[o] = "idle" => pc'[o] # "load_read")
             /\ (version'[o] # version[o] \/ data'[o] # data[o])
                => (pc[o] = "set_stat" \/ (pc[o] = "load_read" /\ loadedFrom[o] = "never"))
             /\ (ev'.obj = o /\ ev'.op \in ReadOps)
                => (version'[o] = version[o] /\ data'[o] = data[o]
                    /\ ev'.status = "ok")]_vars

\* C8, its case: a get on a loaded object has just returned the data in
\* memory although the file has been replaced since and holds other data.
C8_Witness ==
    /\ ev.op = "get" /\ ev.status = "ok"
    /\ loadedFrom[ev.obj] = "json" /\ lastSet[ev.obj] = NoValue
    /\ file.exists /\ file.mtime > version[ev.obj]
    /\ Loads(file.content).ok /\ Loads(file.content).val # ev.val

\* C9: when a set on a loaded object returns, the version of the object is
\* the modification time the file has (the one set read after its write),
\* and it is not older than the version the object held before the set.
C9_VersionAfterSet ==
    (ev.op = "set" /\ ev.status = "ok" /\ ev.old # NoVersion)
    => /\ version[ev.obj] = file.mtime
       /\ ev.ver = version[ev.obj]
       /\ version[ev.obj] >= ev.old
       /\ version[ev.obj] <= now

\* C9, its case: a set on a loaded object has just returned with a version
\* newer than the one the object held.
C9_Witness ==
    /\ ev.op = "set" /\ ev.status = "ok" /\ ev.old # NoVersion
    /\ file.pyval = ev.val
    /\ version[ev.obj] > ev.old

\* C10: obsolete(d) is true exactly when now - version() > d; the duration
\* of a call without argument is nine hours.
C10_ObsoleteIffOlder ==
    /\ DefaultDuration = 9
    /\ ev.op = "obsolete"
       => (ev.flag <=> now - version[ev.obj] > ev.d)

\* C10, its case: obsolete without argument on a version that is exactly
\* nine hours old has just returned false.
C10_Witness ==
    /\ ev.op = "obsolete" /\ ev.d = DefaultDuration
    /\ now - version[ev.obj] = ev.d
    /\ ~ev.flag

\* C11: on an object that found no file when it loaded (and has not set
\* since), the load and every call return without error: version() is the
\* epoch, get() is None, empty() is true, and obsolete(d) is true for every
\* d smaller than the time since the epoch.
C11_AbsentFileReads ==
    (/\ ev.op \in ReadOps \cup {"_load"}
     /\ loadedFrom[ev.obj] = "absent" /\ lastSet[ev.obj] = NoValue)
    => /\ ev.status = "ok"
       /\ version[ev.obj] = Epoch /\ data[ev.obj] = PyNone
       /\ ev.op = "version" => ev.ver = Epoch
       /\ ev.op \in {"get", "_load"} => ev.val = PyNone
       /\ ev.op = "empty" => ev.flag
       /\ (ev.op = "obsolete" /\ ev.d < now - Epoch) => ev.flag

\* C11, its case: obsolete(1 hour) on an object that found no file has just
\* returned true.
C11_Witness ==
    /\ ev.op = "obsolete" /\ ev.d = 1 /\ ev.flag
    /\ loadedFrom[ev.obj] = "absent" /\ lastSet[ev.obj] = NoValue
    /\ ~file.exists

\* C12: empty() is true exactly when the data of the object is None or has
\* length zero; after a set that returned it is true exactly when the data
\* set has length zero, whatever was set before.
C12_EmptyIffNoItems ==
    ev.op = "empty"
    => /\ ev.status = "ok"
       /\ ev.flag <=> (data[ev.obj] = PyNone \/ Len(data[ev.obj].items) = 0)
       /\ lastSet[ev.obj] # NoValue
          => (ev.flag <=> Len(lastSet[ev.obj].items) = 0)

\* C12, its case: empty() has just returned false on an object whose last
\* set was of a non-empty sequence, while the file it had loaded at first was
\* an empty array.
C12_Witness ==
    /\ ev.op = "empty" /\ ~ev.flag
    /\ lastSet[ev.obj] # NoValue /\ Len(lastSet[ev.obj].items) > 0
    /\ loadedFrom[ev.obj] = "json"

\* C15: a refused set leaves the version and the data of the object as they
\* were. As long as the file is newer than the version of a loaded object,
\* no step of the object changes its version (it has no reload), the file
\* stays newer, and the object does not get to write.
C15_RefusedSetStaysRefused ==
    [][\A o \in Objs :
          /\ (ev'.obj = o /\ ev'.op = "set" /\ ev'.status = "ConflictingWrite")
             => (version'[o] = version[o] /\ data'[o] = data[o]
                 /\ file' = file /\ pc'[o] = "idle")
          /\ (pc[o] = "idle" /\ Loaded(o) /\ file.exists /\ file.mtime > version[o])
             => /\ version'[o] = version[o] /\ data'[o] = data[o]
                /\ file'.exists /\ file'.mtime > version'[o]
                /\ pc'[o] = "idle"
                /\ (ev'.obj = o /\ ev'.op = "set") => ev'.status = "ConflictingWrite"]_vars

\* C15, its case: a set has just been refused an hour or more after the file
\* was written by another program, on an object that still holds the older
\* version.
C15_Witness ==
    /\ ev.op = "set" /\ ev.status = "ConflictingWrite"
    /\ file.mtime > version[ev.obj] /\ now > file.mtime
    /\ version[ev.obj] = ev.old

C14_DryRunOnlyReads ==
    doer.dry_run
        => /\ doer.calls \cap MutatingCalls = {}
           /\ doer.calls \subseteq ReadCalls \ {"transitions"}

\* an update under --dry-run with a status, a comment and a sprint has gone
\* through all its issues, the sprints read from Jira on the way
C14_Witness ==
    /\ doer.dry_run /\ doer.cmd = "update" /\ doer.pc = "done"
    /\ doer.status /\ doer.comment /\ doer.sprint /\ doer.left = 0
    /\ {"boards", "sprints"} \subseteq doer.calls

\* C16: whenever the Doer is at its call of set, inside set, or set has just
\* returned or raised, obsolete() has been evaluated on the object in this
\* call of _list_sprints and the object is loaded: the version that set
\* compares the modification time with is a timestamp, and no set raises
\* TypeError.
C16_SetAfterObsolete ==
    /\ (doer.pc \in {"ls_set", "ls_write"} \/ InSet("A"))
         => doer.branch = "refresh" /\ Loaded("A")
    /\ ev.op = "set"
         => /\ ev.obj = "A" /\ doer.branch = "refresh"
            /\ ev.old # NoVersion /\ ev.status # "TypeError"

\* set has found the file, compared its time with the version the load left,
\* and returned
C16_Witness ==
    /\ ev.op = "set" /\ ev.status = "ok" /\ ev.found
    /\ ev.old # NoVersion /\ ev.old # Epoch
    /\ doer.branch = "refresh" /\ doer.pc = "filter"

====
